---- MODULE Spec2Model ----
(***************************************************************************)
(* Model of the debugger bridge of GumV8ScriptBackend                      *)
(* (bindings/gumjs/gumv8scriptbackend.cpp).                                *)
(*                                                                         *)
(* Client threads call set_debug_message_handler and post_debug_message    *)
(* and run the main loop of their thread-default GMainContext; the JS      *)
(* (engine) thread runs the scheduler's jobs and the V8 debug message      *)
(* hook.  Every read or write of a field of GumV8ScriptBackendPrivate that *)
(* the code performs without holding priv->mutex is a step of its own, so  *)
(* that the interleavings of unsynchronised accesses are all explored.     *)
(***************************************************************************)
EXTENDS Naturals, Sequences, FiniteSets

\* ------------------------------------------------------------------ bounds
\* Total number of set_debug_message_handler calls explored.
MaxSets == 2
\* Total number of post_debug_message calls explored.
MaxPosts == 1
\* Total number of debug notifications V8 hands to the message hook.
MaxCaptures == 2
\* Total number of set_debug_message_handler calls made from inside a
\* destructor, where destructors are taken to call back.
MaxNested == 1

\* ------------------------------------------------------------ value spaces
\* Client threads.  Thread t's thread-default GMainContext is context t.
Threads == {1, 2}
\* The JS thread, named as a holder of priv->mutex.
JsThread == Cardinality(Threads) + 1
\* NULL / nullptr (also "no holder" of the mutex).
Null == 0
\* A registration is named by the number of the call that made it; its
\* handler, its data and its data_destroy all carry that number.
RegIds == 1 .. MaxSets

NoArg == [handler |-> Null, data |-> Null, data_destroy |-> Null]
\* struct _GumV8EmitDebugMessageData, with the registry as the capture saw it.
NoData == [message |-> 0, cap_context |-> Null, cap_handler |-> Null]
\* A delivery in progress: the envelope, the registry as the delivery found
\* it, whether a registration ran beside it, the message of the callback
\* dispatched before it in the same context, and the call it made.
NoEnv == [d |-> NoData, reg_handler |-> Null, reg_data |-> Null, quiet |-> FALSE,
          prev |-> 0, called |-> FALSE, handler |-> Null, data |-> Null,
          message |-> 0, freed |-> FALSE]
NoJsContext == [context |-> Null, cap_context |-> Null, cap_handler |-> Null]

VARIABLES
  \* struct _GumV8ScriptBackendPrivate
  mutex,                      \* holder of priv->mutex, Null when free
  debug_handler,
  debug_handler_data,
  debug_handler_data_destroy,
  debug_handler_context,
  debug_context,              \* the persistent handle, Null when nullptr
  \* V8 and the platform
  message_handler,            \* Debug::SetMessageHandler: TRUE when the hook is installed
  live_contexts,              \* persistent debug-context handles allocated and not deleted
  commands,                   \* commands given to Debug::SendCommand and not yet processed
  platform,                   \* "alive" until finalize deletes priv->platform
  \* the scheduler's JS-thread queue and the main contexts' idle sources
  jobs,
  sources,
  \* GObject reference count, and whether the client still owns its reference
  ref_count,
  owner_ref,
  \* client threads
  pc,
  arg,                        \* the arguments of the call in progress
  cached,                     \* a pointer the thread has read and tests before using
  env,                        \* the delivery in progress
  stack,                      \* the frames of the calls a destructor of the thread interrupted
  \* JS thread
  js_pc,
  js_context,                 \* emit_debug_message's local `context`
  \* history
  made,                       \* the arguments of every set_debug_message_handler call so far
  destroyed,                  \* how often a data_destroy ran on each data
  crashed,                    \* a NULL function pointer or nullptr handle was used
  last_delivered,             \* per context, the message of the last callback dispatched
  n_posts,                    \* post_debug_message calls
  n_passed,                   \* those that found a handler
  n_captures,                 \* notifications given to the hook
  n_processed,                \* commands V8 has processed
  n_drained                   \* drain jobs the JS thread has run

priv_vars == <<mutex, debug_handler, debug_handler_data, debug_handler_data_destroy,
               debug_handler_context, debug_context>>
v8_vars == <<message_handler, live_contexts, commands, platform>>
queue_vars == <<jobs, sources>>
ref_vars == <<ref_count, owner_ref>>
thread_vars == <<pc, arg, cached, env, stack>>
js_vars == <<js_pc, js_context>>
post_vars == <<n_posts, n_passed>>
drain_vars == <<n_processed, n_drained>>
hist_vars == <<made, destroyed, crashed, last_delivered, post_vars, n_captures, drain_vars>>
vars == <<priv_vars, v8_vars, queue_vars, ref_vars, thread_vars, js_vars, hist_vars>>

\* --------------------------------------------------------------- helpers
Cap2(n) == IF n >= 2 THEN 2 ELSE n + 1

Running == platform = "alive" /\ ~crashed

\* Inside set_debug_message_handler; inside post_debug_message; inside dispose.
InSet(t) == pc[t] \in {"set_destroy", "set_handler", "set_data", "set_data_destroy",
                       "set_lock", "set_swap", "set_push"}
InPost(t) == pc[t] \in {"post_send", "post_push"}
InDispose(t) == pc[t] \in {"dispose_destroy", "dispose_clear", "dispose_disable",
                           "finalize"}
InDeliver(t) == pc[t] \in {"deliver_call", "deliver_free"}
\* Between the entry of a registration (or of dispose) and the last of its
\* stores to the handler fields.
Storing(t) == pc[t] \in {"set_destroy", "set_handler", "set_data", "set_data_destroy",
                         "dispose_destroy", "dispose_clear"}

\* A thread enters the public API through the client's reference.
CanCall(t) == Running /\ owner_ref /\ pc[t] = "idle"

Goto(t, label) == pc' = [pc EXCEPT ![t] = label]
Return(t) ==
  /\ pc' = [pc EXCEPT ![t] = "idle"]
  /\ arg' = [arg EXCEPT ![t] = NoArg]
  /\ cached' = [cached EXCEPT ![t] = Null]

\* gum_script_scheduler_push_job_on_js_thread (scheduler, priority, func,
\* self, NULL, self): data_destroy is NULL, no reference is taken.
PushJob(func) == jobs' = Append(jobs, func)

\* priv->debug_handler_data_destroy (priv->debug_handler_data): the function
\* pointer is the one tested or the one re-read at the call.
CallDestroy(fn) ==
  IF fn = Null
  THEN /\ crashed' = TRUE
       /\ UNCHANGED destroyed
  ELSE /\ destroyed' = [destroyed EXCEPT
                          ![debug_handler_data] = Cap2(destroyed[debug_handler_data])]
       /\ UNCHANGED crashed

\* ------------------------------------- gum_v8_script_backend_set_debug_message_handler
\* Line 247: the caller's thread-default context, or NULL for a NULL handler.
NewContext(t, handler) == IF handler # Null THEN t ELSE Null

\* Entry and the test `priv->debug_handler_data_destroy != NULL` (line 240).
SetEnter(t, handler, data, data_destroy) ==
  /\ arg' = [arg EXCEPT ![t] = [handler |-> handler, data |-> data,
                                data_destroy |-> data_destroy]]
  /\ made' = Append(made, [handler |-> handler, data |-> data,
                           data_destroy |-> data_destroy,
                           context |-> NewContext(t, handler)])
  /\ cached' = [cached EXCEPT ![t] = debug_handler_data_destroy]
  /\ Goto(t, IF debug_handler_data_destroy # Null THEN "set_destroy" ELSE "set_handler")

SetCall(t) ==
  /\ CanCall(t)
  /\ Len(made) < MaxSets
  /\ LET r == Len(made) + 1 IN
       \/ SetEnter(t, r, r, r)
       \/ SetEnter(t, r, r, Null)
       \/ SetEnter(t, Null, Null, Null)
  /\ env' = [u \in Threads |-> [env[u] EXCEPT !.quiet = FALSE]]
  /\ UNCHANGED <<priv_vars, v8_vars, queue_vars, ref_vars, stack, js_vars, destroyed,
                 crashed, last_delivered, post_vars, n_captures, drain_vars>>

\* Line 241: the previous data_destroy runs, before anything is stored.
SetDestroy(t) ==
  /\ Running /\ pc[t] = "set_destroy"
  /\ \E fn \in {cached[t], debug_handler_data_destroy} : CallDestroy(fn)
  /\ Goto(t, "set_handler")
  /\ UNCHANGED <<priv_vars, v8_vars, queue_vars, ref_vars, arg, stack, cached, env, js_vars,
                 made, last_delivered, post_vars, n_captures, drain_vars>>

\* Lines 243-245: three plain stores, outside the lock.
SetStoreHandler(t) ==
  /\ Running /\ pc[t] = "set_handler"
  /\ debug_handler' = arg[t].handler
  /\ Goto(t, "set_data")
  /\ UNCHANGED <<mutex, debug_handler_data, debug_handler_data_destroy,
                 debug_handler_context, debug_context, v8_vars, queue_vars, ref_vars,
                 arg, stack, cached, env, js_vars, hist_vars>>

SetStoreData(t) ==
  /\ Running /\ pc[t] = "set_data"
  /\ debug_handler_data' = arg[t].data
  /\ Goto(t, "set_data_destroy")
  /\ UNCHANGED <<mutex, debug_handler, debug_handler_data_destroy,
                 debug_handler_context, debug_context, v8_vars, queue_vars, ref_vars,
                 arg, stack, cached, env, js_vars, hist_vars>>

SetStoreDestroy(t) ==
  /\ Running /\ pc[t] = "set_data_destroy"
  /\ debug_handler_data_destroy' = arg[t].data_destroy
  /\ Goto(t, "set_lock")
  /\ UNCHANGED <<mutex, debug_handler, debug_handler_data,
                 debug_handler_context, debug_context, v8_vars, queue_vars, ref_vars,
                 arg, stack, cached, env, js_vars, hist_vars>>

\* Line 249: GUM_V8_SCRIPT_BACKEND_LOCK.
SetLock(t) ==
  /\ Running /\ pc[t] = "set_lock"
  /\ mutex = Null
  /\ mutex' = t
  /\ Goto(t, "set_swap")
  /\ UNCHANGED <<debug_handler, debug_handler_data, debug_handler_data_destroy,
                 debug_handler_context, debug_context, v8_vars, queue_vars, ref_vars,
                 arg, stack, cached, env, js_vars, hist_vars>>

\* (mutant) the context is swapped and the lock kept.
SetSwapKeepsLock(t) ==
  /\ Running /\ pc[t] = "set_swap"
  /\ debug_handler_context' = NewContext(t, arg[t].handler)
  /\ Goto(t, "set_push")
  /\ UNCHANGED <<mutex, debug_handler, debug_handler_data, debug_handler_data_destroy,
                 debug_context, v8_vars, queue_vars, ref_vars,
                 arg, stack, cached, env, js_vars, hist_vars>>

\* Lines 250-255: the context is swapped and the lock released; the old
\* context is unreferenced (its thread keeps it alive).
SetSwap(t) ==
  /\ Running /\ pc[t] = "set_swap"
  /\ debug_handler_context' = NewContext(t, arg[t].handler)
  /\ mutex' = Null
  /\ Goto(t, "set_push")
  /\ UNCHANGED <<debug_handler, debug_handler_data, debug_handler_data_destroy,
                 debug_context, v8_vars, queue_vars, ref_vars,
                 arg, stack, cached, env, js_vars, hist_vars>>

\* (mutant) the enable job is pushed whatever the handler.
JobFuncEnable(handler) == "enable_debugger"

\* Lines 260-262: the job function, chosen by the handler argument.
JobFunc(handler) == IF handler # Null THEN "enable_debugger" ELSE "disable_debugger"

\* The call returns: to the client, or into the destructor that made it,
\* which returns in its turn to line 243 of the call it interrupted.
SetReturn(t) ==
  IF stack[t] = <<>>
  THEN /\ Return(t)
       /\ UNCHANGED stack
  ELSE /\ pc' = [pc EXCEPT ![t] = "set_handler"]
       /\ arg' = [arg EXCEPT ![t] = Head(stack[t]).arg]
       /\ cached' = [cached EXCEPT ![t] = Head(stack[t]).cached]
       /\ stack' = [stack EXCEPT ![t] = Tail(stack[t])]

\* Lines 257-263: the enable or disable job is pushed.
SetPush(t) ==
  /\ Running /\ pc[t] = "set_push"
  /\ PushJob(JobFunc(arg[t].handler))
  /\ SetReturn(t)
  /\ UNCHANGED <<priv_vars, v8_vars, sources, ref_vars, env, js_vars, hist_vars>>

\* Line 241 with a destructor that unregisters from inside its invocation:
\* data_destroy (data) calls set_debug_message_handler (backend, NULL, NULL,
\* NULL) on the thread it runs on.  The interrupted call waits in `stack`
\* with the data its destructor was given; the nested call starts at line 240.
SetDestroyReenter(t) ==
  /\ Running /\ pc[t] = "set_destroy"
  /\ Len(made) < MaxSets + MaxNested
  /\ \E fn \in {cached[t], debug_handler_data_destroy} \ {Null} : CallDestroy(fn)
  /\ stack' = [stack EXCEPT ![t] = <<[arg |-> arg[t], cached |-> cached[t],
                                      data |-> debug_handler_data]>> \o stack[t]]
  /\ SetEnter(t, Null, Null, Null)
  /\ env' = [u \in Threads |-> [env[u] EXCEPT !.quiet = FALSE]]
  /\ UNCHANGED <<priv_vars, v8_vars, queue_vars, ref_vars, js_vars,
                 last_delivered, post_vars, n_captures, drain_vars>>

\* --------------------------------------------------------------- JS thread
\* new GumPersistent<Context>::type (isolate, context): a handle not in use.
NewHandle == CHOOSE h \in 1 .. (Cardinality(live_contexts) + 1) : h \notin live_contexts

\* gum_v8_script_backend_enable_debugger (lines 266-284), under the Locker.
EnableDebugger ==
  /\ message_handler' = TRUE
  /\ debug_context' = NewHandle
  /\ live_contexts' = live_contexts \cup {NewHandle}
  /\ UNCHANGED <<mutex, debug_handler, debug_handler_data, debug_handler_data_destroy,
                 debug_handler_context, commands, platform>>

\* (mutant) disabling a session that is not there installs the hook.
DisableDebuggerToggle ==
  /\ live_contexts' = live_contexts \ {debug_context}
  /\ debug_context' = Null
  /\ message_handler' = (debug_context = Null)
  /\ UNCHANGED <<mutex, debug_handler, debug_handler_data, debug_handler_data_destroy,
                 debug_handler_context, commands, platform>>

\* gum_v8_script_backend_disable_debugger (lines 286-301), under the Locker.
DisableDebugger ==
  /\ live_contexts' = live_contexts \ {debug_context}
  /\ debug_context' = Null
  /\ message_handler' = FALSE
  /\ UNCHANGED <<mutex, debug_handler, debug_handler_data, debug_handler_data_destroy,
                 debug_handler_context, commands, platform>>

\* Debug::ProcessDebugMessages (line 401): V8 takes the buffered commands.
ProcessDebugMessages ==
  /\ commands' = 0
  /\ n_processed' = n_processed + commands
  /\ UNCHANGED crashed

\* gum_v8_script_backend_do_process_debug_messages (lines 389-402):
\* *priv->debug_context is dereferenced without a test (line 398).  With no
\* session that is a read through nullptr: the job faults, or the read is
\* not trapped and the job goes on.
DoProcessDebugMessages ==
  \/ /\ debug_context = Null
     /\ crashed' = TRUE
     /\ UNCHANGED <<commands, n_processed>>
  \/ ProcessDebugMessages

\* The JS thread takes the next job of its queue and runs it to its end.
RunEnable ==
  /\ Running /\ js_pc = "idle"
  /\ jobs # <<>> /\ Head(jobs) = "enable_debugger"
  /\ jobs' = Tail(jobs)
  /\ EnableDebugger
  /\ UNCHANGED <<sources, ref_vars, thread_vars, js_vars, hist_vars>>

RunDisable ==
  /\ Running /\ js_pc = "idle"
  /\ jobs # <<>> /\ Head(jobs) = "disable_debugger"
  /\ jobs' = Tail(jobs)
  /\ DisableDebugger
  /\ UNCHANGED <<sources, ref_vars, thread_vars, js_vars, hist_vars>>

RunDrain ==
  /\ Running /\ js_pc = "idle"
  /\ jobs # <<>> /\ Head(jobs) = "do_process_debug_messages"
  /\ jobs' = Tail(jobs)
  /\ n_drained' = n_drained + 1
  /\ DoProcessDebugMessages
  /\ UNCHANGED <<priv_vars, message_handler, live_contexts, platform, sources,
                 ref_vars, thread_vars, js_vars, made, destroyed, last_delivered,
                 post_vars, n_captures>>

\* ------------------------------------- gum_v8_script_backend_emit_debug_message
\* V8 calls the installed hook with a notification; lines 304-314, up to and
\* including GUM_V8_SCRIPT_BACKEND_LOCK.
EmitLock ==
  /\ Running /\ js_pc = "idle"
  /\ message_handler
  /\ n_captures < MaxCaptures
  /\ mutex = Null
  /\ mutex' = JsThread
  /\ n_captures' = n_captures + 1
  /\ js_pc' = "emit_read"
  /\ UNCHANGED <<debug_handler, debug_handler_data, debug_handler_data_destroy,
                 debug_handler_context, debug_context, v8_vars, queue_vars, ref_vars,
                 thread_vars, js_context, made, destroyed, crashed, last_delivered,
                 post_vars, drain_vars>>

\* (mutant) the notification goes on to the envelope without a context.
EmitReadNoTest ==
  /\ Running /\ js_pc = "emit_read"
  /\ mutex' = Null
  /\ js_context' = [context |-> debug_handler_context,
                    cap_context |-> debug_handler_context,
                    cap_handler |-> debug_handler]
  /\ js_pc' = "emit_attach"
  /\ UNCHANGED <<debug_handler, debug_handler_data, debug_handler_data_destroy,
                 debug_handler_context, debug_context, v8_vars, queue_vars, ref_vars,
                 thread_vars, hist_vars>>

\* Lines 315-321: the registered context is read (and referenced) under the
\* lock; without one the notification is dropped.
EmitRead ==
  /\ Running /\ js_pc = "emit_read"
  /\ mutex' = Null
  /\ js_context' = [context |-> debug_handler_context,
                    cap_context |-> debug_handler_context,
                    cap_handler |-> debug_handler]
  /\ js_pc' = IF debug_handler_context = Null THEN "emit_return" ELSE "emit_attach"
  /\ UNCHANGED <<debug_handler, debug_handler_data, debug_handler_data_destroy,
                 debug_handler_context, debug_context, v8_vars, queue_vars, ref_vars,
                 thread_vars, hist_vars>>

\* Line 321: return.
EmitReturn ==
  /\ Running /\ js_pc = "emit_return"
  /\ js_pc' = "idle"
  /\ js_context' = NoJsContext
  /\ UNCHANGED <<priv_vars, v8_vars, queue_vars, ref_vars, thread_vars, hist_vars>>

\* (mutant) the source goes to the context registered when it is attached.
AttachRegisteredContext == debug_handler_context

\* The context the idle source is attached to (line 333): the local.
AttachContext == js_context.context

\* (mutant) the new source is dispatched before the waiting ones.
AttachFirst(queue, d) == <<d>> \o queue

\* The place of a new source among those of its context: g_source_attach puts
\* it behind the sources of the same priority.
Attach(queue, d) == Append(queue, d)

\* Lines 323-336: the envelope takes a reference to the backend and goes to
\* the context as an idle source.
EmitAttach ==
  /\ Running /\ js_pc = "emit_attach"
  /\ ref_count' = ref_count + 1
  /\ LET d == [message |-> n_captures,
               cap_context |-> js_context.cap_context,
               cap_handler |-> js_context.cap_handler]
         c == AttachContext IN
       IF c = Null
       THEN /\ crashed' = TRUE
            /\ UNCHANGED sources
       ELSE /\ sources' = [sources EXCEPT ![c] = Attach(sources[c], d)]
            /\ UNCHANGED crashed
  /\ js_pc' = "idle"
  /\ js_context' = NoJsContext
  /\ UNCHANGED <<priv_vars, v8_vars, jobs, owner_ref, thread_vars, made, destroyed,
                 last_delivered, post_vars, n_captures, drain_vars>>

\* ------------------------------------------------------------ g_object_unref
\* Dropping a reference: the last one starts dispose on the dropping thread
\* (the count stays 1 while dispose runs), with the test of line 161.
Unref(t) ==
  IF ref_count > 1
  THEN /\ ref_count' = ref_count - 1
       /\ Return(t)
  ELSE /\ UNCHANGED ref_count
       /\ pc' = [pc EXCEPT ![t] = "dispose_destroy"]
       /\ arg' = [arg EXCEPT ![t] = NoArg]
       /\ cached' = [cached EXCEPT ![t] = debug_handler_data_destroy]

\* ---------------------------------- gum_v8_script_backend_do_emit_debug_message
\* The thread's main loop dispatches the first idle source of its context.
\* Line 345: the test of priv->debug_handler.
DeliverTest(t) ==
  /\ Running /\ pc[t] = "idle"
  /\ sources[t] # <<>>
  /\ sources' = [sources EXCEPT ![t] = Tail(sources[t])]
  /\ env' = [env EXCEPT ![t] =
               [NoEnv EXCEPT !.d = Head(sources[t]),
                             !.reg_handler = debug_handler,
                             !.reg_data = debug_handler_data,
                             !.prev = last_delivered[t],
                             !.quiet = \A u \in Threads : ~Storing(u)]]
  /\ last_delivered' = [last_delivered EXCEPT ![t] = Head(sources[t]).message]
  /\ cached' = [cached EXCEPT ![t] = debug_handler]
  /\ Goto(t, IF debug_handler # Null THEN "deliver_call" ELSE "deliver_free")
  /\ UNCHANGED <<priv_vars, v8_vars, jobs, ref_vars, arg, stack, js_vars, made, destroyed,
                 crashed, post_vars, n_captures, drain_vars>>

\* (mutant) the handler registered when the notification was captured.
CalledHandlerAtCapture(t, h) == env[t].d.cap_handler

\* The handler line 346 calls, and the data it is called with.
CalledHandler(t, h) == h
CalledData(t) == debug_handler_data

\* Line 346: priv->debug_handler (d->message, priv->debug_handler_data); the
\* function pointer is the one tested or the one re-read at the call.
DeliverCall(t) ==
  /\ Running /\ pc[t] = "deliver_call"
  /\ \E h \in {cached[t], debug_handler} :
       IF h = Null
       THEN /\ crashed' = TRUE
            /\ UNCHANGED <<env, pc>>
       ELSE /\ env' = [env EXCEPT ![t].called = TRUE,
                                  ![t].handler = CalledHandler(t, h),
                                  ![t].data = CalledData(t),
                                  ![t].message = env[t].d.message,
                                  ![t].freed = destroyed[CalledData(t)] > 0]
            /\ Goto(t, "deliver_free")
            /\ UNCHANGED crashed
  /\ UNCHANGED <<priv_vars, v8_vars, queue_vars, ref_vars, arg, stack, cached, js_vars,
                 made, destroyed, last_delivered, post_vars, n_captures, drain_vars>>

\* The callback returns FALSE (line 348) and the source is destroyed:
\* gum_v8_emit_debug_message_data_free (lines 351-358).
DeliverFree(t) ==
  /\ Running /\ pc[t] = "deliver_free"
  /\ env' = [env EXCEPT ![t] = NoEnv]
  /\ Unref(t)
  /\ UNCHANGED <<priv_vars, v8_vars, queue_vars, owner_ref, stack, js_vars, hist_vars>>

\* ------------------------------------- gum_v8_script_backend_post_debug_message
\* (mutant) the command is sent whether or not a handler is registered.
PostTestUnchecked(t) ==
  /\ CanCall(t)
  /\ n_posts < MaxPosts
  /\ n_posts' = n_posts + 1
  /\ Goto(t, "post_send")
  /\ n_passed' = n_passed + 1
  /\ UNCHANGED <<priv_vars, v8_vars, queue_vars, ref_vars, arg, stack, cached, env, js_vars,
                 made, destroyed, crashed, last_delivered, n_captures, drain_vars>>

\* Lines 367-368: the test of priv->debug_handler.
PostTest(t) ==
  /\ CanCall(t)
  /\ n_posts < MaxPosts
  /\ n_posts' = n_posts + 1
  /\ IF debug_handler = Null
     THEN UNCHANGED <<pc, n_passed>>
     ELSE /\ Goto(t, "post_send")
          /\ n_passed' = n_passed + 1
  /\ UNCHANGED <<priv_vars, v8_vars, queue_vars, ref_vars, arg, stack, cached, env, js_vars,
                 made, destroyed, crashed, last_delivered, n_captures, drain_vars>>

\* Lines 370-380: the command is transcoded and given to Debug::SendCommand.
PostSend(t) ==
  /\ Running /\ pc[t] = "post_send"
  /\ commands' = commands + 1
  /\ Goto(t, "post_push")
  /\ UNCHANGED <<priv_vars, message_handler, live_contexts, platform, queue_vars,
                 ref_vars, arg, stack, cached, env, js_vars, hist_vars>>

\* (mutant) post_debug_message returns without pushing the drain job.
PostPushNothing(t) ==
  /\ Running /\ pc[t] = "post_push"
  /\ Return(t)
  /\ UNCHANGED <<priv_vars, v8_vars, queue_vars, ref_vars, env, stack, js_vars, hist_vars>>

\* Lines 382-386: the drain job is pushed.
PostPush(t) ==
  /\ Running /\ pc[t] = "post_push"
  /\ PushJob("do_process_debug_messages")
  /\ Return(t)
  /\ UNCHANGED <<priv_vars, v8_vars, sources, ref_vars, env, stack, js_vars, hist_vars>>

\* ------------------------------------------------- destruction of the backend
\* The client gives up its reference, with none of its calls in progress.
Release(t) ==
  /\ CanCall(t)
  /\ \A u \in Threads : ~InSet(u) /\ ~InPost(u)
  /\ owner_ref' = FALSE
  /\ Unref(t)
  /\ UNCHANGED <<priv_vars, v8_vars, queue_vars, env, stack, js_vars, hist_vars>>

\* gum_v8_script_backend_dispose, lines 161-162.
DisposeDestroy(t) ==
  /\ Running /\ pc[t] = "dispose_destroy"
  /\ IF cached[t] = Null
     THEN UNCHANGED <<destroyed, crashed>>
     ELSE \E fn \in {cached[t], debug_handler_data_destroy} : CallDestroy(fn)
  /\ Goto(t, "dispose_clear")
  /\ UNCHANGED <<priv_vars, v8_vars, queue_vars, ref_vars, arg, stack, cached, env, js_vars,
                 made, last_delivered, post_vars, n_captures, drain_vars>>

\* Lines 163-167: the registration is cleared, the context unreferenced.
DisposeClear(t) ==
  /\ Running /\ pc[t] = "dispose_clear"
  /\ debug_handler' = Null
  /\ debug_handler_data' = Null
  /\ debug_handler_data_destroy' = Null
  /\ debug_handler_context' = Null
  /\ Goto(t, "dispose_disable")
  /\ UNCHANGED <<mutex, debug_context, v8_vars, queue_vars, ref_vars,
                 arg, stack, cached, env, js_vars, hist_vars>>

\* Line 169: disable_debugger on the disposing thread; its Locker waits for
\* the JS thread to leave V8.
DisposeDisable(t) ==
  /\ Running /\ pc[t] = "dispose_disable"
  /\ js_pc = "idle"
  /\ DisableDebugger
  /\ Goto(t, "finalize")
  /\ UNCHANGED <<queue_vars, ref_vars, arg, stack, cached, env, js_vars, hist_vars>>

\* After dispose g_object_unref drops the reference; an object referenced
\* again meanwhile lives on, otherwise gum_v8_script_backend_finalize
\* (lines 174-185) deletes the platform.
Finalize(t) ==
  /\ Running /\ pc[t] = "finalize"
  /\ ref_count' = ref_count - 1
  /\ platform' = IF ref_count = 1 THEN "deleted" ELSE platform
  /\ Return(t)
  /\ UNCHANGED <<priv_vars, message_handler, live_contexts, commands, queue_vars,
                 owner_ref, env, stack, js_vars, hist_vars>>

\* ------------------------------------------------------------ specification
\* gum_v8_script_backend_init (lines 135-153): g_type zero-fills the private
\* structure; the client owns the one reference.
Init ==
  /\ mutex = Null
  /\ debug_handler = Null
  /\ debug_handler_data = Null
  /\ debug_handler_data_destroy = Null
  /\ debug_handler_context = Null
  /\ debug_context = Null
  /\ message_handler = FALSE
  /\ live_contexts = {}
  /\ commands = 0
  /\ platform = "alive"
  /\ jobs = <<>>
  /\ sources = [c \in Threads |-> <<>>]
  /\ ref_count = 1
  /\ owner_ref = TRUE
  /\ pc = [t \in Threads |-> "idle"]
  /\ arg = [t \in Threads |-> NoArg]
  /\ cached = [t \in Threads |-> Null]
  /\ env = [t \in Threads |-> NoEnv]
  /\ stack = [t \in Threads |-> <<>>]
  /\ js_pc = "idle"
  /\ js_context = NoJsContext
  /\ made = <<>>
  /\ destroyed = [d \in {Null} \cup RegIds |-> 0]
  /\ crashed = FALSE
  /\ last_delivered = [c \in Threads |-> 0]
  /\ n_posts = 0
  /\ n_passed = 0
  /\ n_captures = 0
  /\ n_processed = 0
  /\ n_drained = 0

Next ==
  \/ \E t \in Threads :
       \/ SetCall(t) \/ SetDestroy(t) \/ SetStoreHandler(t) \/ SetStoreData(t)
       \/ SetStoreDestroy(t) \/ SetLock(t) \/ SetSwap(t) \/ SetPush(t)
       \/ DeliverTest(t) \/ DeliverCall(t) \/ DeliverFree(t)
       \/ PostTest(t) \/ PostSend(t) \/ PostPush(t)
       \/ Release(t) \/ DisposeDestroy(t) \/ DisposeClear(t)
       \/ DisposeDisable(t) \/ Finalize(t)
  \/ RunEnable \/ RunDisable \/ RunDrain
  \/ EmitLock \/ EmitRead \/ EmitReturn \/ EmitAttach

Spec == Init /\ [][Next]_vars

\* The same program with client destructors that call back into
\* set_debug_message_handler.
NextReentrant ==
  \/ Next
  \/ \E t \in Threads : SetDestroyReenter(t)

SpecReentrant == Init /\ [][NextReentrant]_vars

\* ================================================================ properties
\* The registry as a whole, and the arguments of call k (0: the state that
\* gum_v8_script_backend_init leaves).
Registry == [handler |-> debug_handler, data |-> debug_handler_data,
             data_destroy |-> debug_handler_data_destroy,
             context |-> debug_handler_context]
CallArgs(k) == IF k = 0
               THEN [handler |-> Null, data |-> Null, data_destroy |-> Null,
                     context |-> Null]
               ELSE made[k]
Calls == 1 .. Len(made)
Quiescent == owner_ref /\ \A t \in Threads : ~InSet(t)
DrainJobs == Cardinality({i \in DOMAIN jobs : jobs[i] = "do_process_debug_messages"})

\* C1: at most one Debug Session handle (persistent debug-context reference
\* created by enable) is live at any time.
C1_AtMostOneSession == Cardinality(live_contexts) <= 1

\* C2: once concurrent set_debug_message_handler calls have returned, the
\* registry holds the handler, data, destructor and context of one and the
\* same call, that registration's data is not destroyed, and the destructor
\* of every other registration has run exactly once.
C2_OneRegistrationSurvives ==
  Quiescent =>
    \E k \in 0 .. Len(made) :
      /\ Registry = CallArgs(k)
      /\ k # 0 /\ made[k].data # Null => destroyed[made[k].data] = 0
      /\ \A j \in Calls \ {k} :
           made[j].data_destroy # Null => destroyed[made[j].data] = 1

\* C3: the previous registration's destructor runs at most once, and only
\* after the new registration is in the registry: while one call at a time
\* is registering, the registry never refers to data whose destructor has run.
C3_DestroyAfterSwap ==
  owner_ref /\ Cardinality({t \in Threads : InSet(t)}) <= 1 =>
    \A r \in RegIds :
      /\ destroyed[r] <= 1
      /\ destroyed[r] > 0 => debug_handler_data # r /\ debug_handler # r

\* C4: when the engine instance is released, the registered handler's
\* destructor has run exactly once, the session handle is released and the
\* notification hook removed.
C4_DisabledBeforeRelease ==
  platform = "deleted" =>
    /\ debug_context = Null
    /\ ~message_handler
    /\ \A j \in Calls : made[j].data_destroy # Null => destroyed[made[j].data] = 1

\* C5: a delivery that finds no handler invokes none, and no delivery invokes
\* a handler with data whose destructor has already run.
C5_NoCallOnDestroyedData ==
  \A t \in Threads :
    pc[t] = "deliver_free" =>
      /\ env[t].reg_handler = Null => ~env[t].called
      /\ env[t].called => ~env[t].freed

\* Thread t has run the callback of an envelope captured under a handler A,
\* found the registry holding another handler B with B's data, and no
\* registration was storing its fields beside the delivery.
C6_Replaced(t) ==
  /\ pc[t] = "deliver_free"
  /\ env[t].quiet
  /\ env[t].d.cap_handler # Null
  /\ env[t].reg_handler \notin {Null, env[t].d.cap_handler}
  /\ env[t].reg_data = env[t].reg_handler

\* C6: a notification captured under handler A and delivered after the
\* registration was replaced by handler B with B's data invokes B with B's
\* data and the envelope's message, not A.
C6_DeliveryReadsRegistry ==
  \A t \in Threads :
    C6_Replaced(t) =>
      /\ env[t].called
      /\ env[t].handler = env[t].reg_handler
      /\ env[t].data = env[t].reg_data
      /\ env[t].message = env[t].d.message
      /\ env[t].handler # env[t].d.cap_handler
C6_Witness == \E t \in Threads : C6_Replaced(t) /\ env[t].called

\* C7: every envelope waits in, and is delivered by, the context that was
\* registered when its notification was captured, whatever the registry says
\* later.
C7_EnvelopeKeepsContext ==
  \A c \in Threads :
    /\ \A i \in DOMAIN sources[c] : sources[c][i].cap_context = c
    /\ InDeliver(c) => env[c].d.cap_context = c
C7_Witness ==
  \E c \in Threads :
    /\ sources[c] # <<>>
    /\ debug_handler_context # c
    /\ \A t \in Threads : ~InSet(t)

\* C8: in one context the delivery callbacks run in the order of capture:
\* each callback's message was captured after that of the callback before it.
C8_DeliveredInCaptureOrder ==
  \A t \in Threads :
    /\ InDeliver(t) => env[t].d.message > env[t].prev
    /\ \A i \in DOMAIN sources[t] : sources[t][i].message > last_delivered[t]
C8_Witness == \E t \in Threads : InDeliver(t) /\ env[t].prev > 0

\* C9: a post_debug_message call that finds no handler changes nothing: no
\* command, no job, the registry and the session untouched.
C9_PostWithoutHandlerIsNoOp ==
  [][(n_posts' # n_posts /\ debug_handler = Null) =>
       UNCHANGED <<priv_vars, v8_vars, queue_vars, ref_vars, thread_vars, js_vars,
                   made, destroyed, crashed, last_delivered, n_passed, n_captures,
                   drain_vars>>]_vars
C9_Witness == n_posts > n_passed /\ jobs = <<>> /\ commands = 0

\* The post_debug_message calls that are before SendCommand, and those that
\* are between SendCommand and the push of the drain job.
C10_Sending == Cardinality({t \in Threads : pc[t] = "post_send"})
C10_Pushing == Cardinality({t \in Threads : pc[t] = "post_push"})

\* C10: every post_debug_message call that found a handler has given its
\* command to the engine exactly once, unless it is still before SendCommand,
\* and has pushed exactly one drain job, unless it is still before the push.
C10_SubmitOnceThenScheduleOnce ==
  /\ commands + n_processed + C10_Sending = n_passed
  /\ DrainJobs + n_drained + C10_Pushing + C10_Sending = n_passed
C10_Witness ==
  /\ n_passed > 0
  /\ \A t \in Threads : ~InPost(t)
  /\ DrainJobs = 1
  /\ commands = 1

\* A step of thread t inside set_debug_message_handler, its entry and its
\* return included.
C11_SetStep(t) == pc'[t] # pc[t] /\ (InSet(t) \/ InSet(t)')

\* C11: every set_debug_message_handler call pushes exactly one job, at its
\* end, an enable job for a non-null handler and a disable job for a null
\* one, and no step of the call changes the session (handle, hook, live
\* handles): only the job does when it runs.
C11_OneJobPerCall ==
  [][\A t \in Threads :
       C11_SetStep(t) =>
         /\ UNCHANGED <<debug_context, message_handler, live_contexts>>
         /\ InSet(t) /\ ~InSet(t)' => pc[t] = "set_push"
         /\ jobs' = IF pc[t] = "set_push"
                    THEN Append(jobs, IF arg[t].handler # Null
                                      THEN "enable_debugger"
                                      ELSE "disable_debugger")
                    ELSE jobs]_vars
C11_Witness ==
  /\ Len(made) = 1
  /\ \A t \in Threads : pc[t] = "idle"
  /\ jobs = <<"enable_debugger">>
  /\ debug_handler # Null
  /\ debug_context = Null /\ ~message_handler

\* A step of the hook past the test of line 320 with no context registered.
C12_DropStep ==
  /\ js_pc' # js_pc
  /\ \/ js_pc = "emit_read" /\ debug_handler_context = Null
     \/ js_pc = "emit_return"

\* C12: a notification captured while no context is registered is dropped:
\* no envelope is attached to any context, no job is pushed, no reference to
\* the backend is taken and nothing faults.
C12_DroppedWithoutContext ==
  [][C12_DropStep =>
       /\ js_pc' \in {"emit_return", "idle"}
       /\ UNCHANGED <<sources, jobs, ref_vars, crashed, v8_vars>>]_vars
C12_Witness ==
  /\ n_captures > 0
  /\ js_pc = "idle"
  /\ \A t \in Threads : pc[t] = "idle" /\ sources[t] = <<>> /\ last_delivered[t] = 0
  /\ ref_count = 1 /\ owner_ref
  /\ ~crashed

\* C13: when the engine instance is released no session handle made by an
\* enable is left unreleased; stated for the teardowns after which
\* priv->debug_context is empty, i.e. whose last session operation was a
\* disable.
C13_HandlesReleasedAtTeardown ==
  platform = "deleted" /\ debug_context = Null => live_contexts = {}

\* C14: the engine instance is not released while a job pushed by
\* set_debug_message_handler or post_debug_message, or an envelope not yet
\* delivered, still refers to the backend.
C14_NoTeardownWhilePending ==
  platform = "deleted" =>
    /\ jobs = <<>>
    /\ \A c \in Threads : sources[c] = <<>> /\ ~InDeliver(c)

\* C15: a drain job that runs while no session is active (priv->debug_context
\* empty) does not fail.
C15_DrainWithoutSessionIsNoOp ==
  [][(n_drained' # n_drained /\ debug_context = Null) => crashed' = crashed]_vars

\* C16: with no set_debug_message_handler call in progress and no enable or
\* disable job pending, the session handle is non-empty exactly when the
\* registered handler is non-null.
C16_SessionIffHandler ==
  /\ owner_ref
  /\ \A t \in Threads : ~InSet(t)
  /\ \A i \in DOMAIN jobs : jobs[i] = "do_process_debug_messages"
  => (debug_context # Null <=> debug_handler # Null)

\* C17: the session handle is created and destroyed only by steps of the
\* engine (JS) thread: no step of a client thread changes priv->debug_context.
C17_SessionOnEngineThread ==
  [][debug_context' # debug_context => pc' = pc]_vars

\* C18: priv->mutex is held only between the lock and the unlock around the
\* context pointer: no thread holds it where it pushes a job, attaches an
\* idle source, calls a handler or calls a destructor.
C18_MutexOnlyAroundContext ==
  /\ \A t \in Threads :
       /\ mutex = t => pc[t] = "set_swap"
       /\ pc[t] \in {"set_destroy", "set_push", "post_send", "post_push",
                     "deliver_call", "deliver_free", "dispose_destroy"} => mutex # t
  /\ mutex = JsThread => js_pc = "emit_read"
  /\ js_pc = "emit_attach" => mutex # JsThread
C18_Witness ==
  \E t \in Threads :
    /\ pc[t] \in {"set_destroy", "set_push", "post_push", "deliver_call"}
    /\ mutex # Null

\* A run of disable_debugger: the disable job, or line 169 of dispose.
C19_DisableStep ==
  \/ jobs # <<>> /\ Head(jobs) = "disable_debugger" /\ jobs' = Tail(jobs)
  \/ \E t \in Threads : pc[t] = "dispose_disable" /\ pc'[t] = "finalize"

\* C19: disable leaves the session disabled (empty handle, no hook), and a
\* disable that finds it disabled changes nothing of the backend or of V8, so
\* that two disables in a row leave the state of one.
C19_DisableIdempotent ==
  [][C19_DisableStep =>
       /\ debug_context' = Null /\ ~message_handler'
       /\ debug_context = Null /\ ~message_handler => UNCHANGED <<priv_vars, v8_vars>>]_vars
C19_Witness ==
  \E t \in Threads :
    /\ pc[t] = "finalize"
    /\ Len(made) > 0
    /\ \A k \in Calls : made[k].handler = Null
    /\ jobs = <<>>
    /\ debug_context = Null /\ ~message_handler

\* C20: a set_debug_message_handler call made by a destructor from inside
\* its invocation does not invoke a destructor on the data that destructor
\* was given.
C20_NestedCallSparesDestructor ==
  [][\A t \in Threads :
       stack[t] # <<>> /\ stack'[t] = stack[t] /\ pc[t] = "set_destroy" /\ pc'[t] # pc[t] =>
         destroyed'[Head(stack[t]).data] = destroyed[Head(stack[t]).data]]_vars

====
